---------------------------- MODULE Spec2Model ----------------------------
(***************************************************************************)
(* Model of the Eclat Dining API (src/main.py, src/schemas.py).            *)
(*                                                                         *)
(* State: the module-level store handle `db`, the seven collections the    *)
(* handlers touch, the server clock, the store's identifier counter and    *)
(* the last request/response pair.  One action per route handler.          *)
(* `imported` is a history variable: the menu items imported so far.       *)
(*                                                                         *)
(* Documents are functions from field names to values.  An Optional value  *)
(* is a tuple: None is <<>> and a present value v is <<v>>.                *)
(***************************************************************************)
EXTENDS Integers, Sequences, FiniteSets, TLC

VARIABLES db, menuitem, special, galleryimage, testimonial, contactmessage,
          reservation, analyticsevent, clock, nextId, resp, imported

vars == <<db, menuitem, special, galleryimage, testimonial, contactmessage,
          reservation, analyticsevent, clock, nextId, resp, imported>>

colls == <<menuitem, special, galleryimage, testimonial, contactmessage,
           reservation, analyticsevent>>

(* ------------------------------ bounds -------------------------------- *)

\* Largest number of documents the store ever assigns an identifier to.
MaxDocs == 2

\* Largest number of items in one import payload.
MaxItems == 2

(* --------------------------- program constants ------------------------ *)

\* datetime.min, the sort key of a reservation without created_at.
DatetimeMin == 0

\* Default of the `limit` query parameter of /admin/reservations.
DefaultLimit == 100

\* Length of the error preview kept by the diagnostics endpoint.
PreviewLen == 50

\* Number of collection names the diagnostics endpoint reports at most.
MaxListed == 10

(* ------------------------------ helpers ------------------------------- *)

None == <<>>

Some(v) == <<v>>

Min(a, b) == IF a < b THEN a ELSE b

Take(s, n) == SubSeq(s, 1, Min(n, Len(s)))

EmptyDoc == [k \in {} |-> None]

\* dict.pop(key, None): the document without the key.
Pop(d, key) == [k \in DOMAIN d \ {key} |-> d[k]]

\* dict.get(key, default)
Get(d, key, default) == IF key \in DOMAIN d THEN d[key] ELSE default

\* d[key] = value, adding or overwriting the key.
SetKey(d, key, value) ==
    [k \in DOMAIN d \cup {key} |-> IF k = key THEN value ELSE d[k]]

\* collection_name(model_cls): the lowercase of the class name.
collection_name(model_cls) ==
    CASE model_cls = "MenuItem" -> "menuitem"
      [] model_cls = "Special" -> "special"
      [] model_cls = "GalleryImage" -> "galleryimage"
      [] model_cls = "Testimonial" -> "testimonial"
      [] model_cls = "ContactMessage" -> "contactmessage"
      [] model_cls = "Reservation" -> "reservation"
      [] model_cls = "AnalyticsEvent" -> "analyticsevent"

\* db[name]: the collection of that name.
Coll(name) ==
    CASE name = "menuitem" -> menuitem
      [] name = "special" -> special
      [] name = "galleryimage" -> galleryimage
      [] name = "testimonial" -> testimonial
      [] name = "contactmessage" -> contactmessage
      [] name = "reservation" -> reservation
      [] name = "analyticsevent" -> analyticsevent

(* ----------------------- document store adapter ----------------------- *)

\* Exact-match filter: every key of the filter is a field of the document
\* with the same value.
Matches(d, flt) == \A k \in DOMAIN flt : k \in DOMAIN d /\ d[k] = flt[k]

\* get_documents raising when the store is unavailable instead of
\* degrading to an empty list.
get_documents_Raising(name, flt, limit) ==
    IF db = "None" THEN [raised |-> TRUE, docs |-> <<>>]
    ELSE LET found == SelectSeq(Coll(name), LAMBDA d : Matches(d, flt))
         IN  [raised |-> FALSE,
              docs |-> IF limit = None THEN found ELSE Take(found, limit[1])]

\* get_documents(collection, filter, limit): up to `limit` matching
\* documents in store order; the empty list, and no error, when the store
\* is unavailable.  `raised` says whether the call raised.
get_documents(name, flt, limit) ==
    IF db = "None" THEN [raised |-> FALSE, docs |-> <<>>]
    ELSE LET found == SelectSeq(Coll(name), LAMBDA d : Matches(d, flt))
         IN  [raised |-> FALSE,
              docs |-> IF limit = None THEN found ELSE Take(found, limit[1])]

\* The document create_document inserts: the payload with created_at and
\* updated_at stamped when not already present, and the store's identifier.
Stamped(data, id, now) ==
    LET c == IF "created_at" \in DOMAIN data THEN data
             ELSE SetKey(data, "created_at", now)
        u == IF "updated_at" \in DOMAIN c THEN c
             ELSE SetKey(c, "updated_at", now)
    IN  SetKey(u, "_id", id)

(* ------------------------------ schemas ------------------------------- *)

MenuItemFields ==
    {"name", "description", "price", "category", "image_url", "featured",
     "vegetarian"}

\* Field(..., ge=0) on price; name, price and category are required.
MenuItemValid(d) ==
    /\ {"name", "price", "category"} \subseteq DOMAIN d
    /\ d["price"] >= 0

\* MenuItem(**d): the declared fields, defaults for the missing ones, other
\* keys ignored.
MenuItem(d) ==
    [k \in MenuItemFields |->
        CASE k = "description" -> Get(d, k, None)
          [] k = "image_url" -> Get(d, k, None)
          [] k = "featured" -> Get(d, k, FALSE)
          [] k = "vegetarian" -> Get(d, k, TRUE)
          [] OTHER -> d[k]]

SpecialFields ==
    {"title", "description", "discount_percent", "valid_until",
     "hero_image_url", "cta_text", "active"}

\* title is required; discount_percent, when given, is within 0..100.
SpecialValid(d) ==
    /\ "title" \in DOMAIN d
    /\ LET p == Get(d, "discount_percent", None)
       IN  p # None => (p[1] >= 0 /\ p[1] <= 100)

\* Special(**d)
Special(d) ==
    [k \in SpecialFields |->
        CASE k = "title" -> d[k]
          [] k = "cta_text" -> Get(d, k, Some("Reserve Now"))
          [] k = "active" -> Get(d, k, TRUE)
          [] OTHER -> Get(d, k, None)]

GalleryImageFields == {"url", "caption", "order"}

GalleryImageValid(d) == "url" \in DOMAIN d

\* GalleryImage(**d)
GalleryImage(d) ==
    [k \in GalleryImageFields |->
        CASE k = "url" -> d[k]
          [] k = "caption" -> Get(d, k, None)
          [] k = "order" -> Get(d, k, Some(0))]

TestimonialFields == {"name", "rating", "comment", "avatar_url", "featured"}

\* name and comment are required; rating is within 1..5.
TestimonialValid(d) ==
    /\ {"name", "comment"} \subseteq DOMAIN d
    /\ Get(d, "rating", 5) >= 1
    /\ Get(d, "rating", 5) <= 5

\* Testimonial(**d)
Testimonial(d) ==
    [k \in TestimonialFields |->
        CASE k = "rating" -> Get(d, k, 5)
          [] k = "avatar_url" -> Get(d, k, None)
          [] k = "featured" -> Get(d, k, FALSE)
          [] OTHER -> d[k]]

ReservationRequestFields ==
    {"name", "email", "phone", "date", "time", "guests", "notes", "paid",
     "payment_reference", "pay_now"}

\* ReservationRequest(**body).model_dump(): the fields of Reservation and
\* pay_now, with the defaults for what the body leaves out.
ReservationRequest(body) ==
    [k \in ReservationRequestFields |->
        CASE k = "phone" -> Get(body, k, None)
          [] k = "notes" -> Get(body, k, None)
          [] k = "paid" -> Get(body, k, FALSE)
          [] k = "payment_reference" -> Get(body, k, None)
          [] k = "pay_now" -> Get(body, k, Some(FALSE))
          [] OTHER -> body[k]]

AnalyticsEventFields == {"type", "path", "metadata", "user_agent", "ip"}

\* AnalyticsEvent(**body).model_dump()
AnalyticsEvent(body) ==
    [k \in AnalyticsEventFields |->
        IF k = "type" THEN body[k] ELSE Get(body, k, None)]

(* --------------------------- request inputs --------------------------- *)

Margherita ==
    [name |-> "Margherita", description |-> Some("Classic"), price |-> 12,
     category |-> "Pizzas", image_url |-> Some("/img/m.png"),
     featured |-> TRUE, vegetarian |-> FALSE]

\* A body that leaves every optional field out, with the smallest price.
Tiramisu == [name |-> "Tiramisu", price |-> 0, category |-> "Desserts"]

\* A body the schema rejects: price < 0.
Negative == [name |-> "Refund", price |-> -1, category |-> "Drinks"]

MenuBodies == {Margherita, Tiramisu, Negative}

RECURSIVE SeqsUpTo(_, _)
\* The sequences over S of length at most n.
SeqsUpTo(S, n) ==
    IF n = 0 THEN {<<>>}
    ELSE LET shorter == SeqsUpTo(S, n - 1)
         IN  shorter \cup {Append(q, x) : q \in shorter, x \in S}

ImportPayloads == SeqsUpTo(MenuBodies, MaxItems)

Categories == {None, Some(""), Some("Pizzas")}

OptBool == {None, Some(TRUE), Some(FALSE)}

ContactBodies ==
    {[name |-> "Ada", email |-> "ada@example.com", message |-> "Hello"]}

ReservationBase ==
    [name |-> "Ada", email |-> "ada@example.com", date |-> "2026-01-01",
     time |-> "19:30", guests |-> 2]

\* The reference strings: a prefix and a number.
ClientRef == <<"CLIENT", 7>>

\* Bodies with and without a client-supplied payment_reference, and with
\* pay_now omitted, null, true and false.
ReservationBodies ==
    {b1 @@ b2 @@ ReservationBase :
        b1 \in {EmptyDoc, [payment_reference |-> Some(ClientRef)]},
        b2 \in {EmptyDoc} \cup {[pay_now |-> p] : p \in OptBool}}

SpoofedIp == "6.6.6.6"

ClientHost == "10.0.0.1"

\* Events with and without a client-supplied ip (a made-up one, or the
\* caller's own address).
AnalyticsBodies ==
    {b @@ [type |-> "page_view", path |-> Some("/menu")] :
        b \in {EmptyDoc, [ip |-> Some(SpoofedIp)], [ip |-> Some(ClientHost)]}}

\* request.client: absent, or the peer's address.
RequestClients == {None, Some(ClientHost)}

Limits == {None, Some(1), Some(2)}

(* --------------------------- initial store ---------------------------- *)

Brunch ==
    ("_id" :> 101) @@
    [title |-> "Brunch", description |-> None, discount_percent |-> Some(10),
     valid_until |-> None, hero_image_url |-> None,
     cta_text |-> Some("Reserve Now"), active |-> TRUE, created_at |-> 0,
     updated_at |-> 0]

Expired ==
    ("_id" :> 102) @@
    [title |-> "Expired", description |-> None, discount_percent |-> None,
     valid_until |-> None, hero_image_url |-> None,
     cta_text |-> Some("Reserve Now"), active |-> FALSE, created_at |-> 0,
     updated_at |-> 0]

\* A record written before the schema had an `active` field.
Legacy == ("_id" :> 103) @@ [title |-> "Legacy"]

Photo ==
    ("_id" :> 111) @@
    [url |-> "/img/1.png", caption |-> None, order |-> Some(0)]

Praise ==
    ("_id" :> 121) @@
    [name |-> "Bo", rating |-> 5, comment |-> "Superb", avatar_url |-> None,
     featured |-> TRUE]

Grumble ==
    ("_id" :> 122) @@
    [name |-> "Cy", rating |-> 1, comment |-> "Slow", avatar_url |-> None,
     featured |-> FALSE]

\* A reservation stored without created_at.
Undated ==
    ("_id" :> 131) @@
    [name |-> "Old", email |-> "old@example.com", phone |-> None,
     date |-> "2020-01-01", time |-> "12:00", guests |-> 1, notes |-> None,
     paid |-> FALSE, payment_reference |-> None]

\* The contents of the store when the process starts: the collections no
\* route writes to, and the reservations of an earlier deployment.
SeedStates ==
    {[special |-> <<Brunch>>, reservation |-> <<>>],
     [special |-> <<Expired, Brunch, Legacy>>, reservation |-> <<Undated>>]}

NoResponse == [op |-> "none", req |-> EmptyDoc, status |-> 0, body |-> <<>>]

\* The state after the process has started: the store handle is set or not;
\* with no store there are no collections to read.
Init ==
    /\ db \in {"None", "Connected"}
    /\ menuitem = <<>>
    /\ \E seed \in SeedStates :
           /\ special = IF db = "None" THEN <<>> ELSE seed.special
           /\ reservation = IF db = "None" THEN <<>> ELSE seed.reservation
    /\ galleryimage = IF db = "None" THEN <<>> ELSE <<Photo>>
    /\ testimonial = IF db = "None" THEN <<>> ELSE <<Praise, Grumble>>
    /\ contactmessage = <<>>
    /\ analyticsevent = <<>>
    /\ clock = 1
    /\ nextId = 1
    /\ resp = NoResponse
    /\ imported = {}

(* ------------------------------ handlers ------------------------------ *)

Response(op, req, status, body) ==
    [op |-> op, req |-> req, status |-> status, body |-> body]

\* Python truthiness of an Optional[bool].
Truthy(x) == x # None /\ x[1]

\* Python truthiness of an Optional[str].
TruthyStr(x) == x # None /\ x[1] # ""

\* get_menu's filter with `featured` applied even when it was not given.
menu_flt_Always(category, featured) ==
    LET f == IF TruthyStr(category)
             THEN SetKey(EmptyDoc, "category", category[1]) ELSE EmptyDoc
    IN  SetKey(f, "featured", Truthy(featured))

\* The filter get_menu builds from its query parameters.
menu_flt(category, featured) ==
    LET f == IF TruthyStr(category)
             THEN SetKey(EmptyDoc, "category", category[1]) ELSE EmptyDoc
    IN  IF featured # None THEN SetKey(f, "featured", featured[1]) ELSE f

\* Whether the schema of that name accepts the document.
Valid(model_cls, d) ==
    CASE model_cls = "MenuItem" -> MenuItemValid(d)
      [] model_cls = "Special" -> SpecialValid(d)
      [] model_cls = "GalleryImage" -> GalleryImageValid(d)
      [] model_cls = "Testimonial" -> TestimonialValid(d)

\* model_cls(**d)
Build(model_cls, d) ==
    CASE model_cls = "MenuItem" -> MenuItem(d)
      [] model_cls = "Special" -> Special(d)
      [] model_cls = "GalleryImage" -> GalleryImage(d)
      [] model_cls = "Testimonial" -> Testimonial(d)

\* The body of a list-read: every fetched document without its _id, rebuilt
\* through its schema; a document the schema rejects makes the handler raise.
ListRead(op, req, fetched, model_cls) ==
    LET docs == [i \in 1..Len(fetched.docs) |-> Pop(fetched.docs[i], "_id")]
    IN  IF fetched.raised \/ \E i \in 1..Len(docs) : ~Valid(model_cls, docs[i])
        THEN Response(op, req, 500, <<>>)
        ELSE Response(op, req, 200,
                      [i \in 1..Len(docs) |-> Build(model_cls, docs[i])])

\* GET /api/menu?category=&featured=
get_menu(category, featured) ==
    /\ resp' = ListRead("get_menu",
                        [category |-> category, featured |-> featured],
                        get_documents(collection_name("MenuItem"),
                                      menu_flt(category, featured), None),
                        "MenuItem")
    /\ UNCHANGED <<db, colls, clock, nextId, imported>>

\* get_specials' filter passing the parameter's value through.
specials_flt_Value(active) == SetKey(EmptyDoc, "active", Truthy(active))

\* The filter get_specials builds: active-only unless `active` is falsy.
specials_flt(active) ==
    IF Truthy(active) THEN SetKey(EmptyDoc, "active", TRUE) ELSE EmptyDoc

\* GET /api/specials?active= ; `given` is None when the parameter is left
\* out, and the parameter then takes its default, True.
get_specials(given) ==
    LET active == IF given = None THEN Some(TRUE) ELSE given
    IN  /\ resp' = ListRead("get_specials", [active |-> given],
                            get_documents(collection_name("Special"),
                                          specials_flt(active), None),
                            "Special")
        /\ UNCHANGED <<db, colls, clock, nextId, imported>>

\* GET /api/gallery
get_gallery ==
    /\ resp' = ListRead("get_gallery", EmptyDoc,
                        get_documents(collection_name("GalleryImage"),
                                      EmptyDoc, None),
                        "GalleryImage")
    /\ UNCHANGED <<db, colls, clock, nextId, imported>>

\* GET /api/testimonials
get_testimonials ==
    /\ resp' = ListRead("get_testimonials", EmptyDoc,
                        get_documents(collection_name("Testimonial"),
                                      SetKey(EmptyDoc, "featured", TRUE), None),
                        "Testimonial")
    /\ UNCHANGED <<db, colls, clock, nextId, imported>>

\* Whether the store takes one more document.
Room(n) == nextId - 1 + n <= MaxDocs

\* create_document(collection, data): the collection with the stamped
\* document appended.  The caller checks the store is available.
create_document(name, data) ==
    Append(Coll(name), Stamped(data, nextId, clock))

\* POST /api/contact
submit_contact(payload) ==
    /\ db = "Connected" => Room(1)
    /\ IF db = "None"
       THEN /\ resp' = Response("submit_contact", payload, 500, <<>>)
            /\ UNCHANGED <<contactmessage, nextId>>
       ELSE /\ contactmessage' =
                   create_document(collection_name("ContactMessage"), payload)
            /\ nextId' = nextId + 1
            /\ resp' = Response("submit_contact", payload, 200,
                                [status |-> "ok",
                                 reference |-> ToString(nextId)])
    /\ UNCHANGED <<db, menuitem, special, galleryimage, testimonial,
                   reservation, analyticsevent, clock, imported>>

\* f"PAY-{int(timestamp)}"
PayToken(now) == <<"PAY", now>>

\* The reference submit_reservation computes: a time-based token when
\* payment is requested, None otherwise.
payment_reference_of(payload, now) ==
    IF Truthy(payload["pay_now"]) THEN Some(PayToken(now)) ELSE None

\* The computed reference stored only when there is one, the client's value
\* kept otherwise.
reservation_data_Keep(payload, payment_reference) ==
    IF payment_reference # None
    THEN SetKey(payload, "payment_reference", payment_reference)
    ELSE payload

\* The document submit_reservation hands to create_document: the dumped
\* payload with payment_reference overwritten by the computed one.
reservation_data(payload, payment_reference) ==
    SetKey(payload, "payment_reference", payment_reference)

\* POST /api/reservations
submit_reservation(body) ==
    LET payload == ReservationRequest(body)
        payment_reference == payment_reference_of(payload, clock)
        data == reservation_data(payload, payment_reference)
    IN  /\ db = "Connected" => Room(1)
        /\ IF db = "None"
           THEN /\ resp' = Response("submit_reservation", body, 500, <<>>)
                /\ UNCHANGED <<reservation, nextId>>
           ELSE /\ reservation' =
                       create_document(collection_name("Reservation"), data)
                /\ nextId' = nextId + 1
                /\ resp' = Response("submit_reservation", body, 200,
                                    [status |-> "ok",
                                     reference |-> ToString(nextId),
                                     payment_reference |-> payment_reference])
        /\ UNCHANGED <<db, menuitem, special, galleryimage, testimonial,
                       contactmessage, analyticsevent, clock, imported>>

\* datetime.isoformat()
IsoFormat(now) == <<"ISO", now>>

\* The client's ip kept when the body gives one.
analytics_data_Trusting(event, client, now) ==
    LET ip == IF event["ip"] # None THEN event["ip"] ELSE client
    IN  SetKey(SetKey(event, "ip", ip), "received_at", IsoFormat(now))

\* The document track_analytics hands to create_document: the dumped event
\* with ip set from the connection and received_at from the clock.
analytics_data(event, client, now) ==
    SetKey(SetKey(event, "ip", client), "received_at", IsoFormat(now))

\* POST /api/analytics ; `client` is request.client's host, or None.
track_analytics(body, client) ==
    LET data == analytics_data(AnalyticsEvent(body), client, clock)
        req == [event |-> body, client |-> client]
    IN  /\ db = "Connected" => Room(1)
        /\ IF db = "None"
           THEN /\ resp' = Response("track_analytics", req, 500, <<>>)
                /\ UNCHANGED <<analyticsevent, nextId>>
           ELSE /\ analyticsevent' =
                       create_document(collection_name("AnalyticsEvent"), data)
                /\ nextId' = nextId + 1
                /\ resp' = Response("track_analytics", req, 200,
                                    [status |-> "ok", ref |-> ToString(nextId)])
        /\ UNCHANGED <<db, menuitem, special, galleryimage, testimonial,
                       contactmessage, reservation, clock, imported>>

(* ------------------------------- admin -------------------------------- *)

\* The documents import_menu builds: each item dumped, with created_at and
\* updated_at set from the clock.
import_docs(items, now) ==
    [i \in 1..Len(items) |->
        SetKey(SetKey(MenuItem(items[i]), "created_at", now),
               "updated_at", now)]

\* The availability check made only when there is something to insert.
import_unavailable_Late(docs) == db = "None" /\ docs # <<>>

\* import_menu's availability check, made before anything else.
import_unavailable(docs) == db = "None"

\* An insert that replaces a stored document of the same name.
insert_many_Upsert(coll, docs) ==
    LET names == {docs[i]["name"] : i \in 1..Len(docs)}
        kept == SelectSeq(coll, LAMBDA d : d["name"] \notin names)
    IN  kept \o [i \in 1..Len(docs) |-> SetKey(docs[i], "_id", nextId + i - 1)]

\* An insert that skips a document whose fields equal a stored one's.
insert_many_Dedup(coll, docs) ==
    LET fresh == SelectSeq(docs,
                     LAMBDA d : \A j \in 1..Len(coll) :
                                    MenuItem(coll[j]) # MenuItem(d))
    IN  coll \o [i \in 1..Len(fresh) |-> SetKey(fresh[i], "_id", nextId + i - 1)]

\* coll.insert_many(docs): every document appended with a fresh identifier.
insert_many(coll, docs) ==
    coll \o [i \in 1..Len(docs) |-> SetKey(docs[i], "_id", nextId + i - 1)]

\* POST /admin/import-menu ; a body the MenuItem schema rejects is answered
\* 422 before the handler runs.
import_menu(items) ==
    LET req == [items |-> items]
        docs == import_docs(items, clock)
    IN  /\ db = "Connected" => Room(Len(items))
        /\ IF \E i \in 1..Len(items) : ~MenuItemValid(items[i])
           THEN /\ resp' = Response("import_menu", req, 422, <<>>)
                /\ UNCHANGED <<menuitem, nextId, imported>>
           ELSE IF import_unavailable(docs)
           THEN /\ resp' = Response("import_menu", req, 500,
                                    [detail |-> "Database not available"])
                /\ UNCHANGED <<menuitem, nextId, imported>>
           ELSE /\ menuitem' = IF docs # <<>>
                               THEN insert_many(menuitem, docs) ELSE menuitem
                /\ nextId' = nextId + Len(docs)
                /\ imported' = imported \cup {MenuItem(items[i]) : i \in 1..Len(items)}
                /\ resp' = Response("import_menu", req, 200,
                                    [message |-> <<"Imported", Len(docs)>>])
        /\ UNCHANGED <<db, special, galleryimage, testimonial, contactmessage,
                       reservation, analyticsevent, clock>>

\* The sort key of list_reservations.
SortKey(x) == Get(x, "created_at", DatetimeMin)

RECURSIVE InsertDesc(_, _)
\* x placed after every element of the descending list whose key is not
\* smaller: equal keys keep their order, as list.sort does with reverse=True.
InsertDesc(x, sorted) ==
    IF sorted = <<>> THEN <<x>>
    ELSE IF SortKey(Head(sorted)) >= SortKey(x)
         THEN <<Head(sorted)>> \o InsertDesc(x, Tail(sorted))
         ELSE <<x>> \o sorted

RECURSIVE InsertAsc(_, _)
InsertAsc(x, sorted) ==
    IF sorted = <<>> THEN <<x>>
    ELSE IF SortKey(Head(sorted)) <= SortKey(x)
         THEN <<Head(sorted)>> \o InsertAsc(x, Tail(sorted))
         ELSE <<x>> \o sorted

RECURSIVE sort_Ascending(_)
\* The sort without reverse=True.
sort_Ascending(out) ==
    IF out = <<>> THEN <<>>
    ELSE InsertAsc(out[Len(out)], sort_Ascending(SubSeq(out, 1, Len(out) - 1)))

RECURSIVE SortDesc(_)
SortDesc(out) ==
    IF out = <<>> THEN <<>>
    ELSE InsertDesc(out[Len(out)], SortDesc(SubSeq(out, 1, Len(out) - 1)))

\* out.sort(key=lambda x: x.get("created_at", datetime.min), reverse=True)
sort_reservations(out) == SortDesc(out)

\* GET /admin/reservations?limit= ; `given` is None when the parameter is
\* left out, and the limit is then 100.
list_reservations(given) ==
    LET limit == IF given = None THEN Some(DefaultLimit) ELSE given
        fetched == get_documents(collection_name("Reservation"), EmptyDoc, limit)
        out == [i \in 1..Len(fetched.docs) |-> Pop(fetched.docs[i], "_id")]
    IN  /\ resp' = IF fetched.raised
                   THEN Response("list_reservations", [limit |-> given], 500, <<>>)
                   ELSE Response("list_reservations", [limit |-> given], 200,
                                 sort_reservations(out))
        /\ UNCHANGED <<db, colls, clock, nextId, imported>>

(* ---------------------------- diagnostics ----------------------------- *)

CollectionNames ==
    <<"menuitem", "special", "galleryimage", "testimonial", "contactmessage",
      "reservation", "analyticsevent">>

\* db.list_collection_names(): the collections that hold a document.
list_collection_names == SelectSeq(CollectionNames, LAMBDA n : Coll(n) # <<>>)

\* Error messages as character sequences: a short one, and one longer than
\* the preview.
ShortMessage == <<1, 2, 3>>

LongMessage == [i \in 1..(PreviewLen + 5) |-> i]

\* What the store does when test_database probes it: nothing raises, listing
\* the collections raises, or reading the database's name raises.
Outcomes ==
    {[at |-> "none", msg |-> <<>>],
     [at |-> "list", msg |-> ShortMessage],
     [at |-> "list", msg |-> LongMessage],
     [at |-> "name", msg |-> LongMessage]}

SetOrNot(present) == IF present THEN Some("Set") ELSE Some("Not Set")

\* str(e)[:50]
Preview(msg) == Take(msg, PreviewLen)

\* The snapshot test_database starts from.
InitialSnapshot ==
    [backend |-> "Running", database |-> <<"Not Available", <<>>>>,
     database_url |-> None, database_name |-> None,
     connection_status |-> "Not Connected", collections |-> <<>>]

\* The try block of test_database and its handlers.
Probe(outcome, urlSet) ==
    IF db # "None"
    THEN LET available ==
                 [InitialSnapshot EXCEPT
                     !.database = <<"Available", <<>>>>,
                     !.database_url = SetOrNot(urlSet)]
             connected ==
                 [available EXCEPT
                     !.database_name = Some("db.name"),
                     !.connection_status = "Connected"]
         IN  CASE outcome.at = "name" ->
                      [available EXCEPT
                          !.database = <<"Error", Preview(outcome.msg)>>]
               [] outcome.at = "list" ->
                      [connected EXCEPT
                          !.database = <<"Connected but Error",
                                         Preview(outcome.msg)>>]
               [] OTHER ->
                      [connected EXCEPT
                          !.collections = Take(list_collection_names, MaxListed),
                          !.database = <<"Connected & Working", <<>>>>]
    ELSE [InitialSnapshot EXCEPT
             !.database = <<"Available but not initialized", <<>>>>]

\* test_database with the store's exceptions left to propagate.
test_database_result_Unguarded(outcome, urlSet, nameSet) ==
    IF db # "None" /\ outcome.at # "none"
    THEN Response("test_database", EmptyDoc, 500, <<>>)
    ELSE Response("test_database", EmptyDoc, 200,
                  [Probe(outcome, urlSet) EXCEPT
                      !.database_url = SetOrNot(urlSet),
                      !.database_name = SetOrNot(nameSet)])

\* What test_database returns: the probed snapshot with database_url and
\* database_name set from the environment.
test_database_result(outcome, urlSet, nameSet) ==
    Response("test_database", EmptyDoc, 200,
             [Probe(outcome, urlSet) EXCEPT
                 !.database_url = SetOrNot(urlSet),
                 !.database_name = SetOrNot(nameSet)])

\* GET /test ; urlSet and nameSet say whether DATABASE_URL and DATABASE_NAME
\* are set in the environment.
test_database(outcome, urlSet, nameSet) ==
    /\ resp' = test_database_result(outcome, urlSet, nameSet)
    /\ UNCHANGED <<db, colls, clock, nextId, imported>>

\* GET /
read_root ==
    /\ resp' = Response("read_root", EmptyDoc, 200,
                        [message |-> "Eclat Dining API running"])
    /\ UNCHANGED <<db, colls, clock, nextId, imported>>

\* Time passes between requests.  Clock values are only compared with each
\* other, so one tick between two writes stands for any number of them.
Tick ==
    /\ clock < nextId
    /\ clock' = clock + 1
    /\ UNCHANGED <<db, colls, nextId, resp, imported>>

\* The requests that read, with every input; the diagnostics with every
\* outcome of the probe and one environment.
Reads ==
    \/ read_root
    \/ \E c \in Categories, f \in OptBool : get_menu(c, f)
    \/ \E a \in OptBool : get_specials(a)
    \/ get_gallery
    \/ get_testimonials
    \/ \E l \in Limits : list_reservations(l)
    \/ \E o \in Outcomes : test_database(o, TRUE, FALSE)

\* Every route, the writing ones with one or two bodies each.
Next ==
    \/ Reads
    \/ \E p \in ContactBodies : submit_contact(p)
    \/ \E p \in {None, Some(TRUE)} :
           submit_reservation([pay_now |-> p] @@ ReservationBase)
    \/ track_analytics([type |-> "page_view", ip |-> Some(SpoofedIp)],
                       Some(ClientHost))
    \/ \E items \in {<<>>, <<Negative>>, <<Margherita>>, <<Tiramisu, Margherita>>} :
           import_menu(items)
    \/ Tick

Spec == Init /\ [][Next]_vars

\* The menu routes, with every import payload.
NextMenu ==
    \/ \E c \in Categories, f \in OptBool : get_menu(c, f)
    \/ \E items \in ImportPayloads : import_menu(items)
    \/ Tick

SpecMenu == Init /\ [][NextMenu]_vars

\* The form routes and the reservation listing, with every body.
NextForms ==
    \/ \E p \in ContactBodies : submit_contact(p)
    \/ \E b \in ReservationBodies : submit_reservation(b)
    \/ \E b \in AnalyticsBodies, c \in RequestClients : track_analytics(b, c)
    \/ \E l \in Limits : list_reservations(l)
    \/ Tick

SpecForms == Init /\ [][NextForms]_vars

\* The diagnostics with every outcome and environment, over stores that two
\* of the writing routes fill.
NextDiag ==
    \/ \E o \in Outcomes, u \in BOOLEAN, n \in BOOLEAN : test_database(o, u, n)
    \/ \E p \in ContactBodies : submit_contact(p)
    \/ \E items \in {<<Margherita>>, <<Tiramisu, Margherita>>} :
           import_menu(items)
    \/ Tick

SpecDiag == Init /\ [][NextDiag]_vars

(* ------------------------------- claims ------------------------------- *)

IsPrefix(a, b) == Len(a) <= Len(b) /\ SubSeq(b, 1, Len(a)) = a

Last(q) == q[Len(q)]

\* Whether a returned item carries the values of the stored document in
\* every schema field the document has.
Carries(item, doc, fields) ==
    \A k \in DOMAIN doc \cap fields : item[k] = doc[k]

\* C1: GET /api/specials with no `active` parameter returns exactly the
\* stored specials whose `active` field is true, and with active=false it
\* returns every stored special, in store order.
C1_SpecialsDefaultVsExplicitFalse ==
    (resp.op = "get_specials" /\ resp.req.active \in {None, Some(FALSE)}) =>
        LET want == IF resp.req.active = None
                    THEN SelectSeq(special,
                             LAMBDA d : "active" \in DOMAIN d /\ d["active"])
                    ELSE special
        IN  /\ resp.status = 200
            /\ Len(resp.body) = Len(want)
            /\ \A i \in 1..Len(want) :
                   /\ DOMAIN resp.body[i] = SpecialFields
                   /\ Carries(resp.body[i], want[i], SpecialFields)

\* C1 witness: active=false returned an inactive special next to an active
\* one, and the whole collection.
C1_Witness ==
    /\ resp.op = "get_specials"
    /\ resp.req.active = Some(FALSE)
    /\ Len(resp.body) = Len(special)
    /\ \E i, j \in 1..Len(resp.body) :
           resp.body[i]["active"] /\ ~resp.body[j]["active"]

\* C2: no step updates or deletes a stored record: every collection keeps
\* the records it had, in place and unchanged, and a step that answers a
\* read leaves every collection as it was.
C2_NoUpdateNoDelete ==
    [][/\ IsPrefix(menuitem, menuitem')
       /\ IsPrefix(special, special')
       /\ IsPrefix(galleryimage, galleryimage')
       /\ IsPrefix(testimonial, testimonial')
       /\ IsPrefix(contactmessage, contactmessage')
       /\ IsPrefix(reservation, reservation')
       /\ IsPrefix(analyticsevent, analyticsevent')
       /\ (resp'.op \in {"read_root", "get_menu", "get_specials",
                         "get_gallery", "get_testimonials",
                         "list_reservations", "test_database"}
              => colls' = colls)]_vars

\* C2 witness: the menu listed after the same item was imported twice, both
\* records in it.
C2_Witness ==
    /\ Len(menuitem) = 2
    /\ menuitem[1]["name"] = menuitem[2]["name"]
    /\ resp.op = "get_menu"
    /\ Len(resp.body) = 2

\* C3: with the store unavailable, import-menu answers every payload the
\* schema accepts, the empty one included, with 500, and nothing is written.
C3_ImportFailsLoudly ==
    (db = "None" /\ resp.op = "import_menu" /\ resp.status # 422) =>
        /\ resp.status = 500
        /\ \A i \in 1..Len(CollectionNames) : Coll(CollectionNames[i]) = <<>>
        /\ nextId = 1

\* C3 witness: the empty payload was answered 500 with no store.
C3_Witness ==
    /\ db = "None"
    /\ resp.op = "import_menu"
    /\ resp.req.items = <<>>
    /\ resp.status = 500

\* C4: with the store unavailable, every list-read answers with an empty
\* list and no error, whatever its filter and limit.
C4_ReadsDegradeSilently ==
    (db = "None" /\ resp.op \in {"get_menu", "get_specials", "get_gallery",
                                "get_testimonials", "list_reservations"}) =>
        (resp.status = 200 /\ resp.body = <<>>)

\* C4 witness: a limited reservation listing answered with no store.
C4_Witness ==
    /\ db = "None"
    /\ resp.op = "list_reservations"
    /\ resp.req.limit = Some(1)
    /\ resp.status = 200

\* C5: an accepted reservation is answered with a non-null
\* payment_reference when pay_now is true and with null when it is false,
\* null or omitted, whatever reference the body carried; the stored record
\* holds the value returned.
C5_PaymentReference ==
    (resp.op = "submit_reservation" /\ resp.status = 200) =>
        LET pay == "pay_now" \in DOMAIN resp.req
                   /\ resp.req["pay_now"] = Some(TRUE)
            ref == resp.body.payment_reference
        IN  /\ pay => ref # None
            /\ ~pay => ref = None
            /\ reservation # <<>>
            /\ Last(reservation)["payment_reference"] = ref

\* C5 witness: a body carrying its own reference and no pay_now was stored.
C5_Witness ==
    /\ resp.op = "submit_reservation"
    /\ resp.status = 200
    /\ "pay_now" \notin DOMAIN resp.req
    /\ "payment_reference" \in DOMAIN resp.req
    /\ resp.req["payment_reference"] = Some(ClientRef)
    /\ resp.body.payment_reference = None

HasCreatedAt(d) == "created_at" \in DOMAIN d

\* C6: the reservation listing is ordered by created_at descending, and a
\* record without created_at comes after every record that has one.
C6_SortedLatestFirst ==
    (resp.op = "list_reservations" /\ resp.status = 200) =>
        \A i, j \in 1..Len(resp.body) :
            i < j =>
                /\ HasCreatedAt(resp.body[j]) => HasCreatedAt(resp.body[i])
                /\ HasCreatedAt(resp.body[j]) =>
                       resp.body[i]["created_at"] >= resp.body[j]["created_at"]

\* C6 witness: two reservations of different times listed latest first,
\* followed by the one stored, first, without created_at.
C6_Witness ==
    /\ resp.op = "list_reservations"
    /\ Len(resp.body) = 3
    /\ ~HasCreatedAt(reservation[1])
    /\ HasCreatedAt(resp.body[2])
    /\ resp.body[1]["created_at"] > resp.body[2]["created_at"]
    /\ ~HasCreatedAt(resp.body[3])

\* C7: every stored analytics record has an ip and a received_at set by the
\* server: the ip is the connection's address (or null when the connection
\* has none), never the one in the body, and received_at is the formatted
\* server time.
C7_ServerStampedAnalytics ==
    /\ \A i \in 1..Len(analyticsevent) :
           LET d == analyticsevent[i]
           IN  /\ {"ip", "received_at"} \subseteq DOMAIN d
               /\ d["ip"] \in RequestClients
               /\ d["received_at"] = IsoFormat(d["created_at"])
    /\ (resp.op = "track_analytics" /\ resp.status = 200) =>
           /\ analyticsevent # <<>>
           /\ Last(analyticsevent)["ip"] = resp.req.client

\* C7 witness: a body carrying a made-up ip was stored for a connection
\* with an address.
C7_Witness ==
    /\ resp.op = "track_analytics"
    /\ resp.status = 200
    /\ "ip" \in DOMAIN resp.req.event
    /\ resp.req.event["ip"] = Some(SpoofedIp)
    /\ resp.req.client = Some(ClientHost)

\* C8: with the store available, an unfiltered GET /api/menu returns, for
\* every item imported before it, an item equal to it field for field, and
\* no returned item has a field outside the schema.
C8_ImportThenList ==
    (resp.op = "get_menu" /\ resp.req.category = None
        /\ resp.req.featured = None /\ db = "Connected") =>
        /\ resp.status = 200
        /\ \A it \in imported : \E i \in 1..Len(resp.body) : resp.body[i] = it
        /\ \A i \in 1..Len(resp.body) : DOMAIN resp.body[i] = MenuItemFields

\* C8 witness: two different imported items, one with every optional field
\* left out, were listed.
C8_Witness ==
    /\ resp.op = "get_menu"
    /\ resp.req.category = None
    /\ resp.req.featured = None
    /\ Cardinality(imported) = 2
    /\ Len(resp.body) = 2

\* C9: with the store available, an import of n items appends exactly n
\* records with fresh identifiers and the items' values, and leaves every
\* stored record in place, equal values or not.
C9_ImportAppends ==
    [][(resp'.op = "import_menu" /\ resp'.status = 200 /\ clock' = clock) =>
          LET items == resp'.req.items
              n == Len(items)
              before == Len(menuitem)
          IN  /\ Len(menuitem') = before + n
              /\ IsPrefix(menuitem, menuitem')
              /\ \A i \in 1..n :
                     /\ Carries(menuitem'[before + i], MenuItem(items[i]),
                                MenuItemFields)
                     /\ \A j \in 1..(before + n) :
                            j # before + i =>
                                menuitem'[j]["_id"] # menuitem'[before + i]["_id"]]_vars

\* C9 witness: the same payload imported twice left two records of equal
\* values.
C9_Witness ==
    /\ resp.op = "import_menu"
    /\ resp.status = 200
    /\ Len(resp.req.items) = 1
    /\ Len(menuitem) = 2
    /\ MenuItem(menuitem[1]) = MenuItem(menuitem[2])
    /\ menuitem[1]["_id"] # menuitem[2]["_id"]

SnapshotKeys ==
    {"backend", "database", "database_url", "database_name",
     "connection_status", "collections"}

\* C10: GET /test always answers, with a snapshot of exactly the six keys,
\* and changes no collection.
C10_DiagnosticsNeverRaises ==
    [][resp'.op = "test_database" =>
          /\ resp'.status = 200
          /\ DOMAIN resp'.body = SnapshotKeys
          /\ colls' = colls]_vars

\* C10 witness: listing the collections failed with a long message, and the
\* snapshot holds its preview.
C10_Witness ==
    /\ resp.op = "test_database"
    /\ resp.status = 200
    /\ resp.body.database[1] = "Connected but Error"
    /\ Len(resp.body.database[2]) = PreviewLen

=============================================================================
